---- MODULE Spec2Model ----
(***************************************************************************)
(* State-machine model of the shopino crawler.                             *)
(*   clothing_crawler.py : category discovery, operator confirmation,      *)
(*                         category persistence, listing pagination and    *)
(*                         per-product extraction.                         *)
(*   x.py                : the stand-alone per-product extractor.          *)
(* Texts, URLs and paths are sequences: a text is a sequence of            *)
(* one-character strings, a URL or a path a sequence of segments.          *)
(***************************************************************************)
EXTENDS Integers, Sequences, FiniteSets, TLC

\* ------------------------------------------------------------- bounds
MaxQuota == 2      \* largest configured products_per_subcategory explored
MaxPages == 2      \* listing pages requested per subcategory before the model stops
MaxArticles == 2   \* article nodes on one listing page
MaxImgs == 2       \* image elements on one product page
MaxHidden == 2     \* hidden subcategory sections on the base page
MaxCategories == 2 \* leaf anchors on the base page, over its three sections
MaxRuns == 2       \* runs of the script against the same database and assets folder

\* ------------------------------------------------------------- values
None == <<"<None>">>          \* Python's None, where a text or a path is expected
NoAttr == <<"<no attribute>">> \* a tag without the attribute that is subscripted
BASE_URL == <<"shopino.app">>
ASSETS_FOLDER == <<"assets">>
Yes == <<"y", "e", "s">>

\* the three main category labels of crawl_categories (the third has a space)
Women == <<"z">>
Men == <<"m">>
Kids == <<"b", " ", "g">>

\* ------------------------------------------------------------- pure helpers
RECURSIVE lstrip(_)
lstrip(s) == IF s # <<>> /\ Head(s) = " " THEN lstrip(Tail(s)) ELSE s

RECURSIVE rstrip(_)
rstrip(s) == IF s # <<>> /\ s[Len(s)] = " " THEN rstrip(SubSeq(s, 1, Len(s) - 1)) ELSE s

strip(s) == rstrip(lstrip(s))

lower_char(c) ==
    CASE c = "Y" -> "y" [] c = "E" -> "e" [] c = "S" -> "s"
      [] c = "N" -> "n" [] c = "O" -> "o" [] OTHER -> c

lower(s) == [i \in DOMAIN s |-> lower_char(s[i])]

decode_text(text) == IF text # <<>> THEN text ELSE None

\* characters the pattern [^\w\-\_\u0600-\u06FF ] leaves alone
AllowedChars == {"a", "b", "g", "m", "z", "_", "-", " "}

sanitize_filename(name) ==
    [i \in DOMAIN name |-> IF name[i] \in AllowedChars THEN name[i] ELSE "_"]

\* urljoin(BASE_URL, href) for an absolute-path href on the site root
urljoin(base, href) == base \o href

\* product_url.split('/')[-1]
last_segment(url) == IF url = <<>> THEN "" ELSE url[Len(url)]

\* os.path.basename(img_url)
basename(url) == IF url = <<>> THEN "" ELSE url[Len(url)]

\* os.path.join(folder, name); a path is a sequence of segments and a segment
\* the sequence of the strings it is formatted from
path_join(folder, name) == Append(folder, name)

RECURSIVE count_of(_, _)
count_of(seq, x) ==
    IF seq = <<>> THEN 0
    ELSE (IF Head(seq) = x THEN 1 ELSE 0) + count_of(Tail(seq), x)

\* ------------------------------------------------------------- site content
\* anchor elements of a subcategory section
SubTexts == {<<"a">>, <<" ", "a">>}
CategoryHrefs == {<<"c1">>, <<"c2">>}
Anchors == [svg : BOOLEAN, text : SubTexts, href : CategoryHrefs]
SectionContents ==
    {<<>>} \cup {<<x>> : x \in Anchors} \cup {<<x, y>> : x \in Anchors, y \in Anchors}

\* article nodes of a listing page: without a product link, with a link that
\* has no href, with a link to a product
ProductHrefs == {<<"product", "p1">>}
Articles ==
    {[link |-> FALSE, href |-> NoAttr]}
        \cup {[link |-> TRUE, href |-> h] : h \in ProductHrefs \cup {NoAttr}}
ArticleLists == UNION {[1..n -> Articles] : n \in 0..MaxArticles}

\* image elements of a product page: src and what a GET of it answers
ImgUrls == {<<"img", "a.jpg">>, <<"cdn", "a.jpg">>}
ImgTags ==
    {[src |-> NoAttr, get |-> "error"]} \cup [src : ImgUrls, get : {"ok", "error"}]
ImgTagLists == UNION {[1..n -> ImgTags] : n \in 0..MaxImgs}

\* a product page: the answer to its GET and, when it is answered, its shop
\* anchor and its image elements
ProductPages ==
    {[status |-> "error", shop |-> "absent", imgs |-> <<>>]}
        \cup [status : {"ok"}, shop : {"absent", "href", "no_href"}, imgs : ImgTagLists]

\* the operator's answers at the prompt
Answers ==
    {Yes, <<"Y", "E", "S">>, <<" ", "y", "e", "s", " ">>, <<"n", "o">>, <<"y">>, <<>>}

\* ------------------------------------------------------------- extraction
NoImages == [raised |-> "none", swallowed |-> FALSE, images |-> <<>>,
             downloads |-> <<>>, written |-> {}]

\* save_image: the written path, or None when the GET fails
save_image(get, folder, filename) ==
    IF get = "ok" THEN path_join(folder, filename) ELSE None

\* the image loop of clothing_crawler.extract_product_metadata
RECURSIVE cc_images(_, _, _)
cc_images(tags, folder, acc) ==
    IF tags = <<>> THEN acc
    ELSE LET t == Head(tags) IN
         IF t.src = NoAttr THEN [acc EXCEPT !.raised = "image_src"]
         ELSE LET img_filename == <<basename(t.src)>>
                  saved == save_image(t.get, folder, img_filename)
              IN cc_images(Tail(tags), folder,
                     [acc EXCEPT !.downloads = Append(@, t.src),
                                 !.written = IF saved # None THEN @ \cup {saved} ELSE @,
                                 !.swallowed = @ \/ saved = None,
                                 !.images = Append(@, path_join(folder, img_filename))])

\* the image loop of x.extract_product_metadata, image_urls being the URLs seen
RECURSIVE x_images(_, _, _, _)
x_images(tags, folder, image_urls, acc) ==
    IF tags = <<>> THEN acc
    ELSE LET t == Head(tags) IN
         IF t.src = NoAttr THEN [acc EXCEPT !.raised = "image_src"]
         ELSE IF t.src # <<>> /\ t.src \notin image_urls
              THEN LET img_path == path_join(folder, <<basename(t.src)>>) IN
                   IF t.get # "ok"
                   THEN [acc EXCEPT !.raised = "image_get",
                                    !.downloads = Append(@, t.src)]
                   ELSE x_images(Tail(tags), folder, image_urls \cup {t.src},
                            [acc EXCEPT !.downloads = Append(@, t.src),
                                        !.written = @ \cup {img_path},
                                        !.images = Append(@, img_path)])
              ELSE x_images(Tail(tags), folder, image_urls, acc)

\* the try body up to the JSON write: which step raised, and the image loop's work
cc_try(page, product_folder) ==
    IF page.status # "ok" THEN [NoImages EXCEPT !.raised = "fetch"]
    ELSE IF page.shop = "no_href" THEN [NoImages EXCEPT !.raised = "fields"]
    ELSE cc_images(page.imgs, product_folder, NoImages)

x_try(page, product_folder) ==
    IF page.status # "ok" THEN [NoImages EXCEPT !.raised = "fetch"]
    ELSE IF page.shop = "no_href" THEN [NoImages EXCEPT !.raised = "fields"]
    ELSE x_images(page.imgs, product_folder, {}, NoImages)

\* the JSON write reached although an image element raised
json_written_despite_image(body) == body.raised \in {"none", "image_src", "image_get"}

\* the JSON write is reached when no step before it raised
json_written(body) == body.raised = "none"

cc_product_folder(main_category, sub_category, product_id) ==
    <<ASSETS_FOLDER, sanitize_filename(main_category),
      sanitize_filename(sub_category), <<product_id>>>>

x_product_folder(product_id) == <<ASSETS_FOLDER, <<product_id>>>>

json_name(product_id) == <<product_id, ".json">>

\* what one call of extract_product_metadata did; srcs are the src attributes of
\* the image elements find_all returned, when the call got that far
Outcome(variant, product_id, folder, page, body, files) ==
    [call |-> variant, product_id |-> product_id,
     srcs |-> IF body.raised \in {"fetch", "fields"} THEN <<>>
              ELSE [i \in DOMAIN page.imgs |-> page.imgs[i].src],
     raised |-> body.raised, swallowed |-> body.swallowed,
     images |-> IF json_written(body) THEN body.images ELSE <<>>,
     downloads |-> body.downloads, written |-> body.written,
     sidecar |-> path_join(folder, json_name(product_id)),
     sidecar_before |-> path_join(folder, json_name(product_id)) \in files,
     saved |-> json_written(body)]

cc_extract_product_metadata(main_category, sub_category, product_id, page, files) ==
    LET folder == cc_product_folder(main_category, sub_category, product_id)
    IN Outcome("cc", product_id, folder, page, cc_try(page, folder), files)

x_extract_product_metadata(product_id, page, files) ==
    LET folder == x_product_folder(product_id)
    IN Outcome("x", product_id, folder, page, x_try(page, folder), files)

NoCall == [call |-> "none", product_id |-> "", srcs |-> <<>>, raised |-> "none",
           swallowed |-> FALSE, images |-> <<>>, downloads |-> <<>>, written |-> {},
           sidecar |-> <<>>, sidecar_before |-> FALSE, saved |-> FALSE]

\* the sidecars on disk after a call
SidecarsAfter(sidecars_before, out) ==
    sidecars_before \cup (IF out.saved THEN {out.sidecar} ELSE {})

\* ------------------------------------------------------------- state
VARIABLES
    program,                   \* which script runs: "clothing_crawler" or "x"
    PRODUCTS_PER_SUBCATEGORY,  \* config['products_per_subcategory']
    pc,                        \* position of the running script
    runs,                      \* runs started so far
    n_hidden,                  \* len(subcategories_sections), -1 before the base page is parsed
    women_found,               \* whether women_section was found
    section,                   \* next section to process: 1 women, 2 men, 3 kids
    categories_info,           \* the (main, sub, url) triples discovered in this run
    confirm,                   \* the normalised answer, None before it is read
    cat_idx,                   \* index into categories_info of the loop at hand
    page,                      \* crawl_products_for_category's page
    crawled_products,          \* crawl_products_for_category's crawled_products
    products,                  \* article nodes of the current page not yet visited
    requests,                  \* page numbers requested for the current subcategory
    empty_at,                  \* first page of this subcategory that had no article, 0 if none
    persisted,                 \* sidecars written for the current subcategory
    categories_table,          \* rows of the categories table, in id order
    products_table,            \* rows of the products table, in id order
    sidecars,                  \* paths of the JSON sidecars under the assets folder
    effects,                   \* what this run has done so far that others can observe
    uncaught,                  \* where the exception that ended the run was raised
    last                       \* what the extract_product_metadata call of the last step did

vars == <<program, PRODUCTS_PER_SUBCATEGORY, pc, runs, n_hidden, women_found, section,
          categories_info, confirm, cat_idx, page, crawled_products, products, requests,
          empty_at, persisted, categories_table, products_table, sidecars, effects,
          uncaught, last>>

config == <<program, PRODUCTS_PER_SUBCATEGORY>>
discovery == <<n_hidden, women_found, section, categories_info>>
paging == <<page, crawled_products, products, requests, empty_at, persisted>>
database == <<categories_table, products_table>>

\* the state of a script that has just been started
Fresh ==
    /\ pc = "start"
    /\ n_hidden = -1
    /\ women_found = FALSE
    /\ section = 1
    /\ categories_info = <<>>
    /\ confirm = None
    /\ cat_idx = 1
    /\ page = 1
    /\ crawled_products = 0
    /\ products = <<>>
    /\ requests = <<>>
    /\ empty_at = 0
    /\ persisted = 0
    /\ effects = {}
    /\ uncaught = "none"
    /\ last = NoCall

\* both tables are created empty (CREATE TABLE IF NOT EXISTS), no asset exists
Init ==
    /\ program \in {"clothing_crawler", "x"}
    /\ PRODUCTS_PER_SUBCATEGORY \in 0..MaxQuota
    /\ program = "x" => PRODUCTS_PER_SUBCATEGORY = 0
    /\ runs = 1
    /\ categories_table = <<>>
    /\ products_table = <<>>
    /\ sidecars = {}
    /\ Fresh

\* ------------------------------------------------------------- crawl_categories
\* the structure check with "and" for "or"
sections_missing_both(hidden, women) == hidden < 2 /\ ~women

\* the structure check of the base page
sections_missing(hidden, women) == hidden < 2 \/ ~women

\* get_soup(BASE_URL) and the two lookups of the sections
FetchBase ==
    /\ program = "clothing_crawler"
    /\ pc = "start"
    /\ \E status \in {"ok", "error"}, hidden \in 0..MaxHidden, women \in BOOLEAN :
        IF status # "ok"
        THEN /\ pc' = "crashed"
             /\ uncaught' = "base_fetch"
             /\ UNCHANGED <<n_hidden, women_found>>
        ELSE /\ n_hidden' = hidden
             /\ women_found' = women
             /\ pc' = IF sections_missing(hidden, women) THEN "returned" ELSE "discover"
             /\ UNCHANGED uncaught
    /\ UNCHANGED <<config, runs, section, categories_info, confirm, cat_idx, paging,
                   database, sidecars, effects, last>>

\* the leaf anchors of one section, as (main, sub, url) triples
RECURSIVE leaf_triples(_, _)
leaf_triples(label, anchors) ==
    IF anchors = <<>> THEN <<>>
    ELSE LET a == Head(anchors) IN
         (IF a.svg THEN <<>>
          ELSE << <<label, decode_text(strip(a.text)), urljoin(BASE_URL, a.href)>> >>)
             \o leaf_triples(label, Tail(anchors))

section_label(i) == CASE i = 1 -> Women [] i = 2 -> Men [] OTHER -> Kids

\* one of the three loops over a section's anchors; after the third the list is
\* printed and the prompt is shown
ProcessSection ==
    /\ pc = "discover"
    /\ \E anchors \in SectionContents :
        /\ categories_info' = categories_info \o leaf_triples(section_label(section), anchors)
        /\ Len(categories_info') <= MaxCategories
    /\ section' = section + 1
    /\ pc' = IF section = 3 THEN "confirm" ELSE "discover"
    /\ effects' = IF section = 3 THEN effects \cup {"prompt"} ELSE effects
    /\ UNCHANGED <<config, runs, n_hidden, women_found, confirm, cat_idx, paging,
                   database, sidecars, uncaught, last>>

\* the test of the answer taking only "no" for a rejection
rejected_only_no(answer) == answer = <<"n", "o">>

\* the test of the answer
rejected(answer) == answer # Yes

\* input(...).strip().lower() and the test of the answer
ReadConfirm ==
    /\ pc = "confirm"
    /\ \E line \in Answers :
        /\ confirm' = lower(strip(line))
        /\ pc' = IF rejected(lower(strip(line))) THEN "exited" ELSE "insert"
    /\ cat_idx' = 1
    /\ UNCHANGED <<config, runs, discovery, paging, database, sidecars, effects,
                   uncaught, last>>

\* SELECT COUNT(*) FROM categories WHERE main_category = ? AND sub_category = ?
count_rows(table, main_category_name, subcategory_name) ==
    Cardinality({i \in DOMAIN table :
                    /\ table[i].main_category = main_category_name
                    /\ table[i].sub_category = subcategory_name})

\* the guard of the INSERT left out
always_absent(table, main_category_name, subcategory_name) == TRUE

\* the guard of the INSERT
absent(table, main_category_name, subcategory_name) ==
    count_rows(table, main_category_name, subcategory_name) = 0

insert_category(table, main_category_name, subcategory_name, subcategory_url) ==
    IF absent(table, main_category_name, subcategory_name)
    THEN Append(table, [main_category |-> main_category_name,
                        sub_category |-> subcategory_name,
                        url |-> subcategory_url])
    ELSE table

\* one iteration of the loop that saves the categories; the loop over the
\* categories to crawl starts when it ends
InsertCategory ==
    /\ pc = "insert"
    /\ IF cat_idx > Len(categories_info)
       THEN /\ pc' = "crawl"
            /\ cat_idx' = 1
            /\ UNCHANGED <<categories_table, effects>>
       ELSE LET c == categories_info[cat_idx] IN
            /\ categories_table' = insert_category(categories_table, c[1], c[2], c[3])
            /\ effects' = IF categories_table' # categories_table
                          THEN effects \cup {"category_row"} ELSE effects
            /\ cat_idx' = cat_idx + 1
            /\ pc' = "insert"
    /\ UNCHANGED <<config, runs, discovery, confirm, paging, products_table, sidecars,
                   uncaught, last>>

\* one iteration of the loop that crawls the categories: the call of
\* crawl_products_for_category, up to its while
StartCategory ==
    /\ pc = "crawl"
    /\ IF cat_idx > Len(categories_info)
       THEN /\ pc' = "done"
            /\ UNCHANGED paging
       ELSE /\ pc' = "page"
            /\ page' = 1
            /\ crawled_products' = 0
            /\ products' = <<>>
            /\ requests' = <<>>
            /\ empty_at' = 0
            /\ persisted' = 0
    /\ last' = NoCall
    /\ UNCHANGED <<config, runs, discovery, confirm, cat_idx, database, sidecars, effects,
                   uncaught>>

\* ------------------------------------------------------------- crawl_products_for_category
\* the test of the while (negated: the loop is left)
quota_reached(crawled) == ~(crawled < PRODUCTS_PER_SUBCATEGORY)

\* the test of the for with > for >=
quota_break_off_by_one(crawled) == crawled > PRODUCTS_PER_SUBCATEGORY

\* the test of the for that breaks out of the page
quota_break(crawled) == crawled >= PRODUCTS_PER_SUBCATEGORY

\* the test that ends the pagination left out
never_no_products(found) == FALSE

\* the test that ends the pagination
no_products(found) == found = <<>>

\* the while test; when it fails the function returns to the loop over categories
QuotaReturn ==
    /\ pc = "page"
    /\ quota_reached(crawled_products)
    /\ pc' = "crawl"
    /\ cat_idx' = cat_idx + 1
    /\ last' = NoCall
    /\ UNCHANGED <<config, runs, discovery, confirm, paging, database, sidecars, effects,
                   uncaught>>

\* get_soup(f"{category_url}?page={page}"), find_all and the test for no product
FetchListing ==
    /\ pc = "page"
    /\ ~quota_reached(crawled_products)
    /\ page <= MaxPages
    /\ requests' = Append(requests, page)
    /\ effects' = effects \cup {"listing_fetch"}
    /\ last' = NoCall
    /\ \E status \in {"ok", "error"}, found \in ArticleLists :
        IF status # "ok"
        THEN /\ found = <<>>
             /\ pc' = "crashed"
             /\ uncaught' = "listing_fetch"
             /\ UNCHANGED <<cat_idx, products, empty_at>>
        ELSE /\ UNCHANGED uncaught
             /\ empty_at' = IF found = <<>> /\ empty_at = 0 THEN page ELSE empty_at
             /\ IF no_products(found)
                THEN /\ pc' = "crawl"
                     /\ cat_idx' = cat_idx + 1
                     /\ UNCHANGED products
                ELSE /\ pc' = "product"
                     /\ products' = found
                     /\ UNCHANGED cat_idx
    /\ UNCHANGED <<config, runs, discovery, confirm, page, crawled_products, persisted,
                   database, sidecars>>

\* the end of the for: page += 1
NextPage ==
    /\ pc = "product"
    /\ products = <<>> \/ quota_break(crawled_products)
    /\ page' = page + 1
    /\ products' = <<>>
    /\ pc' = "page"
    /\ last' = NoCall
    /\ UNCHANGED <<config, runs, discovery, confirm, cat_idx, crawled_products, requests,
                   empty_at, persisted, database, sidecars, effects, uncaught>>

\* one iteration of the for over the article nodes
ProcessProduct ==
    /\ pc = "product"
    /\ products # <<>>
    /\ ~quota_break(crawled_products)
    /\ LET product == Head(products)
           c == categories_info[cat_idx]
       IN IF ~product.link
          THEN /\ products' = Tail(products)
               /\ last' = NoCall
               /\ UNCHANGED <<pc, crawled_products, persisted, sidecars, effects, uncaught>>
          ELSE IF product.href = NoAttr
          THEN /\ pc' = "crashed"
               /\ uncaught' = "product_link"
               /\ last' = NoCall
               /\ UNCHANGED <<products, crawled_products, persisted, sidecars, effects>>
          ELSE \E content \in ProductPages :
               LET product_url == urljoin(BASE_URL, product.href)
                   product_id == last_segment(product_url)
                   out == cc_extract_product_metadata(c[1], c[2], product_id, content, sidecars)
               IN /\ last' = out
                  /\ sidecars' = SidecarsAfter(sidecars, out)
                  /\ persisted' = IF out.saved THEN persisted + 1 ELSE persisted
                  /\ effects' = effects \cup {"product_crawl"}
                                    \cup (IF out.saved \/ out.written # {}
                                          THEN {"file_write"} ELSE {})
                  /\ crawled_products' = crawled_products + 1
                  /\ products' = Tail(products)
                  /\ UNCHANGED <<pc, uncaught>>
    /\ UNCHANGED <<config, runs, discovery, confirm, cat_idx, page, requests, empty_at,
                   database>>

\* ------------------------------------------------------------- x.py
X_PRODUCT_ID == "1101493"

\* the example usage of x.py: one call of extract_product_metadata
XMain ==
    /\ program = "x"
    /\ pc = "start"
    /\ \E content \in ProductPages :
        LET out == x_extract_product_metadata(X_PRODUCT_ID, content, sidecars)
        IN /\ last' = out
           /\ sidecars' = SidecarsAfter(sidecars, out)
           /\ effects' = effects \cup {"product_crawl"}
                            \cup (IF out.saved \/ out.written # {}
                                  THEN {"file_write"} ELSE {})
    /\ pc' = "done"
    /\ UNCHANGED <<config, runs, discovery, confirm, cat_idx, paging, database, uncaught>>

\* ------------------------------------------------------------- runs
Ended == pc \in {"done", "returned", "exited", "crashed"}

\* the script is started again on the same database file and assets folder
Rerun ==
    /\ Ended
    /\ runs < MaxRuns
    /\ runs' = runs + 1
    /\ pc' = "start"
    /\ n_hidden' = -1
    /\ women_found' = FALSE
    /\ section' = 1
    /\ categories_info' = <<>>
    /\ confirm' = None
    /\ cat_idx' = 1
    /\ page' = 1
    /\ crawled_products' = 0
    /\ products' = <<>>
    /\ requests' = <<>>
    /\ empty_at' = 0
    /\ persisted' = 0
    /\ effects' = {}
    /\ uncaught' = "none"
    /\ last' = NoCall
    /\ UNCHANGED <<config, database, sidecars>>

Next ==
    \/ FetchBase
    \/ ProcessSection
    \/ ReadConfirm
    \/ InsertCategory
    \/ StartCategory
    \/ QuotaReturn
    \/ FetchListing
    \/ NextPage
    \/ ProcessProduct
    \/ XMain

\* one run of either script
Spec == Init /\ [][Next]_vars

\* runs of clothing_crawler.py, one after the other on the same database, with
\* products_per_subcategory set to 0: the while of crawl_products_for_category
\* is never entered
InitRerun ==
    /\ Init
    /\ program = "clothing_crawler"
    /\ PRODUCTS_PER_SUBCATEGORY = 0

NextRerun ==
    \/ FetchBase
    \/ ProcessSection
    \/ ReadConfirm
    \/ InsertCategory
    \/ StartCategory
    \/ QuotaReturn
    \/ Rerun

SpecRerun == InitRerun /\ [][NextRerun]_vars

\* ------------------------------------------------------------- properties
Persistence == {"category_row", "file_write"}
Crawling == {"listing_fetch", "product_crawl"}

\* C1: in every state of crawl_products_for_category, the sidecars written for
\* the subcategory at hand are at most PRODUCTS_PER_SUBCATEGORY, and so are the
\* calls of extract_product_metadata
C1_QuotaNeverExceeded ==
    program = "clothing_crawler" =>
        /\ persisted <= crawled_products
        /\ crawled_products <= PRODUCTS_PER_SUBCATEGORY

\* a page still holds a product when the quota has been filled with sidecars
C1_Witness ==
    /\ pc = "product"
    /\ PRODUCTS_PER_SUBCATEGORY >= 1
    /\ persisted = PRODUCTS_PER_SUBCATEGORY
    /\ products # <<>>
    /\ Head(products).link
    /\ Head(products).href # NoAttr

\* C2: the pages of a subcategory are requested as 1, 2, ... in this order, and
\* once a page N has come back without an article node the paginator has
\* stopped: N is the last page requested
C2_PagesInOrderStopAtEmpty ==
    /\ \A i \in DOMAIN requests : requests[i] = i
    /\ empty_at # 0 =>
        /\ Len(requests) = empty_at
        /\ pc \notin {"page", "product"}

\* page 2 was the first without an article node and the paginator has stopped
C2_Witness ==
    /\ empty_at = 2
    /\ requests = <<1, 2>>
    /\ pc = "crawl"

SamePair(r1, r2) ==
    r1.main_category = r2.main_category /\ r1.sub_category = r2.sub_category

\* C3: no two rows of the categories table have the same (main_category,
\* sub_category), and an insert_category of a pair that is present leaves the
\* table as it is
C3_CategoryPairsUnique ==
    /\ [](\A i, j \in DOMAIN categories_table :
            SamePair(categories_table[i], categories_table[j]) => i = j)
    /\ [][(/\ pc = "insert"
           /\ cat_idx <= Len(categories_info)
           /\ count_rows(categories_table, categories_info[cat_idx][1],
                         categories_info[cat_idx][2]) > 0)
          => categories_table' = categories_table]_vars

\* a second run has saved a list that holds the same pair twice, over a table
\* that holds the pair once
C3_Witness ==
    /\ runs = 2
    /\ pc = "crawl"
    /\ Len(categories_info) = 2
    /\ categories_info[1][1] = categories_info[2][1]
    /\ categories_info[1][2] = categories_info[2][2]
    /\ count_rows(categories_table, categories_info[1][1], categories_info[1][2]) = 1

\* C4: a failed fetch of a listing page while a subcategory is crawled is
\* turned into a skip: it never ends the run
C4_FetchFailureNeverAborts == ~(pc = "crashed" /\ uncaught = "listing_fetch")

\* C5 as claimed: after a call of extract_product_metadata in which a step
\* failed (the page fetch, the field parsing, an image), the product has no
\* sidecar and no products row
C5_AnyFailureLeavesNothing ==
    (last.call # "none" /\ (last.raised # "none" \/ last.swallowed)) =>
        /\ last.sidecar \notin sidecars
        /\ products_table = <<>>

\* C5 as amended: a call of extract_product_metadata in which an exception
\* reaches the catch-all returns normally and writes neither a sidecar nor a
\* products row: the product has a sidecar afterwards only if it had one before
C5_CaughtFailureWritesNothing ==
    (last.call # "none" /\ last.raised # "none") =>
        /\ ~last.saved
        /\ last.images = <<>>
        /\ last.sidecar \in sidecars <=> last.sidecar_before
        /\ products_table = <<>>
        /\ pc # "crashed"

\* an image element without src ended a call that had downloaded an image
C5_Witness ==
    /\ last.call # "none"
    /\ last.raised = "image_src"
    /\ last.written # {}
    /\ ~last.sidecar_before
    /\ last.sidecar \notin sidecars

\* C6: nothing is persisted before the answer is read, and after an answer
\* other than yes the run has ended with no category row, no listing fetched
\* and no product crawled
C6_NoPersistenceWithoutYes ==
    /\ pc \in {"start", "discover", "confirm"} =>
        /\ confirm = None
        /\ effects \cap (Persistence \cup Crawling) = {}
        /\ categories_table = <<>>
        /\ sidecars = {}
    /\ (confirm # None /\ confirm # Yes) =>
        /\ pc = "exited"
        /\ effects \cap (Persistence \cup Crawling) = {}
        /\ categories_table = <<>>
        /\ sidecars = {}

\* the operator has answered no to a list of categories that was not empty
C6_Witness ==
    /\ pc = "exited"
    /\ confirm = <<"n", "o">>
    /\ categories_info # <<>>

\* C7: every sidecar written by clothing_crawler has a products row whose
\* json_path is its path
C7_OneRowPerSidecar ==
    program = "clothing_crawler" =>
        \A p \in sidecars : \E i \in DOMAIN products_table : products_table[i].json_path = p

\* C8: a URL that several image elements of a saved product share, every
\* download of the product having succeeded, is downloaded once and has one
\* entry in the images list
C8_DuplicateImageOnce ==
    (last.call # "none" /\ last.saved /\ ~last.swallowed) =>
        \A i, j \in DOMAIN last.srcs :
            (i # j /\ last.srcs[i] = last.srcs[j] /\ last.srcs[i] # <<>>) =>
                /\ count_of(last.downloads, last.srcs[i]) = 1
                /\ (\A k \in DOMAIN last.srcs :
                        basename(last.srcs[k]) = basename(last.srcs[i])
                            => last.srcs[k] = last.srcs[i])
                    => count_of(last.images,
                                path_join(SubSeq(last.sidecar, 1, Len(last.sidecar) - 1),
                                          <<basename(last.srcs[i])>>)) = 1

\* C9: when the base page has fewer than two hidden sections or no visible
\* section, crawl_categories has returned: no prompt, no category row, no
\* listing fetched
C9_MissingSectionsNoEffect ==
    (n_hidden # -1 /\ (n_hidden < 2 \/ ~women_found)) =>
        /\ pc = "returned"
        /\ effects = {}
        /\ confirm = None
        /\ categories_info = <<>>
        /\ categories_table = <<>>
        /\ requests = <<>>

\* the base page had the visible section and one hidden section
C9_Witness ==
    /\ pc = "returned"
    /\ n_hidden = 1
    /\ women_found

\* C10: every path of the images list of a sidecar written by clothing_crawler
\* is a file that save_image wrote during the call
C10_ImagesListOnlyWrittenFiles ==
    (last.call = "cc" /\ last.saved) =>
        \A i \in DOMAIN last.images : last.images[i] \in last.written

====
